---- MODULE Spec2Model ----
(***************************************************************************)
(* A model of the Monkey front end: package token (token kinds and lookup  *)
(* tables), package lexer (the Lexer and its lexlets), package ast (the    *)
(* nodes and their String methods) and package parser (the Pratt parser).  *)
(*                                                                         *)
(* A byte is a one-character string; the 0 byte is NUL.  A Go string is a  *)
(* sequence of bytes.  Go's 0-based index i is the sequence's index i+1.   *)
(***************************************************************************)
EXTENDS Integers, Sequences, FiniteSets, TLC

VARIABLES
    l,             \* the Lexer: input, position, nextPosition, ch
    hist,          \* what each NextToken call made by a client returned
    pc,            \* "lexer" | "parser" | "parsing" | "parsed" | "rendered" |
                   \* "reparsed"
    currentToken,  \* Parser.currentToken
    nextToken,     \* Parser.nextToken
    errors,        \* Parser.errors
    panicked,      \* a run-time panic unwound the last call
    program,       \* the Program ParseProgram returned
    out,           \* what Program.String() returned
    again,         \* the second parse, of the text in out
    last           \* the last parser method called directly, and its result

vars == <<l, hist, pc, currentToken, nextToken, errors, panicked, program, out,
          again, last>>

-----------------------------------------------------------------------------
(* package token *)

ILLEGAL == "ILLEGAL"
EOF == "EOF"
IDENT == "IDENT"
INT == "INT"
ASSIGN == "="
PLUS == "+"
MINUS == "-"
SLASH == "/"
ASTERISK == "*"
BANG == "!"
LT == "<"
GT == ">"
EQ == "=="
NOTEQ == "!="
COMMA == ","
SEMICOLON == ";"
LPAREN == "("
RPAREN == ")"
LBRACE == "{"
RBRACE == "}"
TRUE_ == "TRUE"
FALSE_ == "FALSE"
FUNCTION == "FUNCTION"
LET_ == "LET"
IF_ == "IF"
ELSE_ == "ELSE"
RETURN == "RETURN"

NUL == "NUL"

Token(typ, literal) == [Type |-> typ, Literal |-> literal]

\* token.Token{}: the zero value.
ZeroToken == Token("", <<>>)

keywords ==
    (<<"l", "e", "t">> :> LET_) @@
    (<<"f", "n">> :> FUNCTION) @@
    (<<"i", "f">> :> IF_) @@
    (<<"e", "l", "s", "e">> :> ELSE_) @@
    (<<"r", "e", "t", "u", "r", "n">> :> RETURN) @@
    (<<"t", "r", "u", "e">> :> TRUE_) @@
    (<<"f", "a", "l", "s", "e">> :> FALSE_)

singleCharTokens ==
    ("," :> COMMA) @@ (";" :> SEMICOLON) @@ ("(" :> LPAREN) @@ (")" :> RPAREN) @@
    ("{" :> LBRACE) @@ ("}" :> RBRACE) @@ ("=" :> ASSIGN) @@ ("+" :> PLUS) @@
    ("-" :> MINUS) @@ ("*" :> ASTERISK) @@ ("/" :> SLASH) @@ ("!" :> BANG) @@
    ("<" :> LT) @@ (">" :> GT)

twoCharTokens ==
    (<<"=", "=">> :> EQ) @@ (<<"!", "=">> :> NOTEQ)

GetTokenType(identifier) ==
    IF identifier \in DOMAIN keywords THEN keywords[identifier] ELSE IDENT

GetSingleCharToken(ch) ==
    IF ch \in DOMAIN singleCharTokens THEN singleCharTokens[ch] ELSE ILLEGAL

GetTwoCharToken(s) ==
    IF s \in DOMAIN twoCharTokens THEN twoCharTokens[s] ELSE ILLEGAL

-----------------------------------------------------------------------------
(* package lexer *)

isCharacter(ch) ==
    ch \in {"a", "b", "c", "d", "e", "f", "g", "h", "i", "j", "k", "l", "m", "n",
            "o", "p", "q", "r", "s", "t", "u", "v", "w", "x", "y", "z",
            "A", "B", "C", "D", "E", "F", "G", "H", "I", "J", "K", "L", "M", "N",
            "O", "P", "Q", "R", "S", "T", "U", "V", "W", "X", "Y", "Z"}

isWhitespace(ch) == ch \in {" ", "\t", "\r", "\n"}

isDigit(ch) == ch \in {"0", "1", "2", "3", "4", "5", "6", "7", "8", "9"}

consumeNextChar(lx) ==
    LET position == lx.nextPosition
        nextPosition == IF lx.nextPosition < Len(lx.input)
                        THEN lx.nextPosition + 1
                        ELSE lx.nextPosition
    IN [input |-> lx.input,
        position |-> position,
        nextPosition |-> nextPosition,
        ch |-> IF position < Len(lx.input) THEN lx.input[position + 1] ELSE NUL]

\* lexer.New: the zero Lexer over input, then one consumeNextChar.
NewLexer(input) ==
    consumeNextChar([input |-> input, position |-> 0, nextPosition |-> 0, ch |-> NUL])

peekNextChar(lx) ==
    IF lx.nextPosition >= Len(lx.input) THEN NUL ELSE lx.input[lx.nextPosition + 1]

RECURSIVE consumeWhitespaces(_)
consumeWhitespaces(lx) ==
    IF lx.ch # NUL /\ isWhitespace(lx.ch)
    THEN consumeWhitespaces(consumeNextChar(lx))
    ELSE lx

\* A lexlet returns (token, ok) and leaves the Lexer in state l.
Lexed(ok, tok, lx) == [ok |-> ok, tok |-> tok, l |-> lx]

\* A variant of eofLexlet that consumes the 0 byte it reports.
eofLexletConsuming(lx) ==
    IF lx.ch # NUL
    THEN Lexed(FALSE, ZeroToken, lx)
    ELSE Lexed(TRUE, Token(EOF, <<>>), consumeNextChar(lx))

eofLexlet(lx) ==
    IF lx.ch # NUL
    THEN Lexed(FALSE, ZeroToken, lx)
    ELSE Lexed(TRUE, Token(EOF, <<>>), lx)

\* A variant of twoCharLexlet that consumes only the first of the two bytes.
twoCharLexletOnce(lx) ==
    LET chars == <<lx.ch, peekNextChar(lx)>>
        typ == GetTwoCharToken(chars)
    IN IF typ = ILLEGAL
       THEN Lexed(FALSE, ZeroToken, lx)
       ELSE Lexed(TRUE, Token(typ, chars), consumeNextChar(lx))

twoCharLexlet(lx) ==
    LET chars == <<lx.ch, peekNextChar(lx)>>
        typ == GetTwoCharToken(chars)
    IN IF typ = ILLEGAL
       THEN Lexed(FALSE, ZeroToken, lx)
       ELSE Lexed(TRUE, Token(typ, chars), consumeNextChar(consumeNextChar(lx)))

singleCharLexlet(lx) ==
    LET typ == GetSingleCharToken(lx.ch)
    IN IF typ = ILLEGAL
       THEN Lexed(FALSE, ZeroToken, lx)
       ELSE Lexed(TRUE, Token(typ, <<lx.ch>>), consumeNextChar(lx))

RECURSIVE consumeDigits(_)
consumeDigits(lx) ==
    IF isDigit(lx.ch) THEN consumeDigits(consumeNextChar(lx)) ELSE lx

literalsLexlet(lx) ==
    IF lx.ch = NUL \/ ~isDigit(lx.ch)
    THEN Lexed(FALSE, ZeroToken, lx)
    ELSE LET pos == lx.position
             after == consumeDigits(lx)
         IN Lexed(TRUE, Token(INT, SubSeq(lx.input, pos + 1, after.position)), after)

RECURSIVE consumeCharacters(_)
consumeCharacters(lx) ==
    IF isCharacter(lx.ch) THEN consumeCharacters(consumeNextChar(lx)) ELSE lx

identifiersAndKeywordsLexlet(lx) ==
    IF lx.ch = NUL \/ ~isCharacter(lx.ch)
    THEN Lexed(FALSE, ZeroToken, lx)
    ELSE LET pos == lx.position
             after == consumeCharacters(lx)
             ident == SubSeq(lx.input, pos + 1, after.position)
         IN Lexed(TRUE, Token(GetTokenType(ident), ident), after)

\* A variant of NextToken whose ILLEGAL token leaves the byte unconsumed.
NextTokenStuck(lx) ==
    LET w == consumeWhitespaces(lx)
        r1 == eofLexlet(w)
        r2 == twoCharLexlet(w)
        r3 == singleCharLexlet(w)
        r4 == literalsLexlet(w)
        r5 == identifiersAndKeywordsLexlet(w)
    IN IF r1.ok THEN r1
       ELSE IF r2.ok THEN r2
       ELSE IF r3.ok THEN r3
       ELSE IF r4.ok THEN r4
       ELSE IF r5.ok THEN r5
       ELSE Lexed(TRUE, Token(ILLEGAL, <<w.ch>>), w)

\* Lexer.NextToken: the token returned and the Lexer afterwards.
NextToken(lx) ==
    LET w == consumeWhitespaces(lx)
        r1 == eofLexlet(w)
        r2 == twoCharLexlet(w)
        r3 == singleCharLexlet(w)
        r4 == literalsLexlet(w)
        r5 == identifiersAndKeywordsLexlet(w)
    IN IF r1.ok THEN r1
       ELSE IF r2.ok THEN r2
       ELSE IF r3.ok THEN r3
       ELSE IF r4.ok THEN r4
       ELSE IF r5.ok THEN r5
       ELSE Lexed(TRUE, Token(ILLEGAL, <<w.ch>>), consumeNextChar(w))

-----------------------------------------------------------------------------
(* strconv.ParseInt(s, 0, 64) on the literal of an INT token, which is a   *)
(* non-empty run of ASCII digits.  A number is its sequence of decimal     *)
(* digits, most significant first, without leading zeros (zero is <<0>>).  *)

DigitValue ==
    ("0" :> 0) @@ ("1" :> 1) @@ ("2" :> 2) @@ ("3" :> 3) @@ ("4" :> 4) @@
    ("5" :> 5) @@ ("6" :> 6) @@ ("7" :> 7) @@ ("8" :> 8) @@ ("9" :> 9)

\* 1 << 63, the first value that does not fit an int64.
Int64Cutoff == <<9, 2, 2, 3, 3, 7, 2, 0, 3, 6, 8, 5, 4, 7, 7, 5, 8, 0, 8>>

RECURSIVE MulAddFrom(_, _, _, _)
MulAddFrom(ds, i, m, carry) ==
    IF i = 0
    THEN IF carry = 0 THEN <<>> ELSE <<carry>>
    ELSE LET v == ds[i] * m + carry
         IN MulAddFrom(ds, i - 1, m, v \div 10) \o <<v % 10>>

\* ds * m + d, for a base m <= 10 and a digit d < m.
MulAdd(ds, m, d) ==
    LET r == MulAddFrom(ds, Len(ds), m, d)
    IN IF Len(r) > 1 /\ r[1] = 0 THEN Tail(r) ELSE r

RECURSIVE NumLess(_, _)
NumLess(a, b) ==
    IF Len(a) # Len(b) THEN Len(a) < Len(b)
    ELSE IF a = <<>> THEN FALSE
    ELSE IF a[1] # b[1] THEN a[1] < b[1]
    ELSE NumLess(Tail(a), Tail(b))

RECURSIVE DigitsValue(_, _, _)
DigitsValue(s, base, acc) ==
    IF s = <<>> THEN acc
    ELSE DigitsValue(Tail(s), base, MulAdd(acc, base, DigitValue[s[1]]))

\* Base 0: a leading "0" selects base 8 and is dropped; otherwise base 10.
\* err: a digit not below the base (ErrSyntax) or a value >= 1<<63 (ErrRange).
ParseInt(s) ==
    LET base == IF s[1] = "0" THEN 8 ELSE 10
        digs == IF s[1] = "0" THEN Tail(s) ELSE s
        syntaxOk == \A i \in 1..Len(digs) : DigitValue[digs[i]] < base
        val == DigitsValue(digs, base, <<0>>)
    IN IF ~syntaxOk THEN [err |-> TRUE, val |-> <<0>>]
       ELSE IF ~NumLess(val, Int64Cutoff) THEN [err |-> TRUE, val |-> <<0>>]
       ELSE [err |-> FALSE, val |-> val]

-----------------------------------------------------------------------------
(* package ast: a node is a record; node names its Go type.  Nil is the nil *)
(* interface value and the nil pointer.                                     *)

Nil == [node |-> "nil"]

Identifier(tok, value) == [node |-> "Identifier", Token |-> tok, Value |-> value]

IntegerLiteral(tok, value) ==
    [node |-> "IntegerLiteral", Token |-> tok, Value |-> value]

Boolean(tok, value) == [node |-> "Boolean", Token |-> tok, Value |-> value]

PrefixExpression(tok, operator, right) ==
    [node |-> "PrefixExpression", Token |-> tok, Operator |-> operator,
     Right |-> right]

InfixExpression(tok, left, operator, right) ==
    [node |-> "InfixExpression", Token |-> tok, Left |-> left,
     Operator |-> operator, Right |-> right]

IfExpression(tok, condition, consequence, alternative) ==
    [node |-> "IfExpression", Token |-> tok, Condition |-> condition,
     Consequence |-> consequence, Alternative |-> alternative]

FunctionLiteral(tok, parameters, body) ==
    [node |-> "FunctionLiteral", Token |-> tok, Parameters |-> parameters,
     Body |-> body]

CallExpression(tok, function, arguments) ==
    [node |-> "CallExpression", Token |-> tok, Function |-> function,
     Arguments |-> arguments]

LetStatement(tok, name, value) ==
    [node |-> "LetStatement", Token |-> tok, Name |-> name, Value |-> value]

ReturnStatement(tok, value) ==
    [node |-> "ReturnStatement", Token |-> tok, ReturnValue |-> value]

\* Token is read in the same composite literal that calls parseExpression: Go
\* leaves the order of the read and the call open, so toks holds the token
\* current before the call and the token current after it.
ExpressionStatement(toks, expression) ==
    [node |-> "ExpressionStatement", Token |-> toks, Expression |-> expression]

BlockStatement(tok, statements) ==
    [node |-> "BlockStatement", Token |-> tok, Statements |-> statements]

Program(statements) == [node |-> "Program", Statements |-> statements]

\* What a String method gives: its text, or a run-time panic (ok = FALSE).
Text(s) == [ok |-> TRUE, text |-> s]

StringPanic == [ok |-> FALSE, text |-> <<>>]

Cat(a, b) == IF a.ok /\ b.ok THEN Text(a.text \o b.text) ELSE StringPanic

RECURSIVE JoinStrings(_, _)
JoinStrings(elems, sep) ==
    IF elems = <<>> THEN Text(<<>>)
    ELSE IF Len(elems) = 1 THEN elems[1]
    ELSE Cat(Cat(elems[1], Text(sep)), JoinStrings(Tail(elems), sep))

\* n.String(), by the Go type of n; on the nil interface it panics.
RECURSIVE String(_)

\* x.String() for each element x, concatenated.
StringAll(nodes) == JoinStrings([i \in 1..Len(nodes) |-> String(nodes[i])], <<>>)

\* strings.Join of the elements' String(), separated by ", ".
StringList(nodes) ==
    JoinStrings([i \in 1..Len(nodes) |-> String(nodes[i])], <<",", " ">>)

ProgramString(n) == StringAll(n.Statements)

LetStatementString(n) ==
    Cat(Cat(Cat(Text(n.Token.Literal \o <<" ">>), String(n.Name)),
            Cat(Text(<<" ", "=", " ">>),
                IF n.Value # Nil THEN String(n.Value) ELSE Text(<<>>))),
        Text(<<";">>))

IdentifierString(n) == Text(n.Value)

\* A variant of ReturnStatement.String that leaves out the final semicolon.
ReturnStatementStringBare(n) ==
    Cat(Text(n.Token.Literal \o <<" ">>),
        IF n.ReturnValue # Nil THEN String(n.ReturnValue) ELSE Text(<<>>))

ReturnStatementString(n) ==
    Cat(Cat(Text(n.Token.Literal \o <<" ">>),
            IF n.ReturnValue # Nil THEN String(n.ReturnValue) ELSE Text(<<>>)),
        Text(<<";">>))

ExpressionStatementString(n) ==
    IF n.Expression # Nil THEN String(n.Expression) ELSE Text(<<>>)

IntegerLiteralString(n) == Text(n.Token.Literal)

BooleanString(n) == Text(n.Token.Literal)

PrefixExpressionString(n) ==
    Cat(Cat(Text(<<"(">> \o n.Operator), String(n.Right)), Text(<<")">>))

InfixExpressionString(n) ==
    Cat(Cat(Cat(Text(<<"(">>), String(n.Left)),
            Cat(Text(<<" ">> \o n.Operator \o <<" ">>), String(n.Right))),
        Text(<<")">>))

IfExpressionString(n) ==
    Cat(Cat(Cat(Text(<<"i", "f">>), String(n.Condition)),
            Cat(Text(<<" ">>), String(n.Consequence))),
        IF n.Alternative # Nil
        THEN Cat(Text(<<"e", "l", "s", "e", " ">>), String(n.Alternative))
        ELSE Text(<<>>))

BlockStatementString(n) == StringAll(n.Statements)

FunctionLiteralString(n) ==
    Cat(Cat(Text(n.Token.Literal \o <<"(">>), StringList(n.Parameters)),
        Cat(Text(<<")", " ">>), String(n.Body)))

CallExpressionString(n) ==
    Cat(Cat(String(n.Function), Text(<<"(">>)),
        Cat(StringList(n.Arguments), Text(<<")">>)))

String(n) ==
    CASE n.node = "nil" -> StringPanic
      [] n.node = "Program" -> ProgramString(n)
      [] n.node = "LetStatement" -> LetStatementString(n)
      [] n.node = "Identifier" -> IdentifierString(n)
      [] n.node = "ReturnStatement" -> ReturnStatementString(n)
      [] n.node = "ExpressionStatement" -> ExpressionStatementString(n)
      [] n.node = "IntegerLiteral" -> IntegerLiteralString(n)
      [] n.node = "Boolean" -> BooleanString(n)
      [] n.node = "PrefixExpression" -> PrefixExpressionString(n)
      [] n.node = "InfixExpression" -> InfixExpressionString(n)
      [] n.node = "IfExpression" -> IfExpressionString(n)
      [] n.node = "BlockStatement" -> BlockStatementString(n)
      [] n.node = "FunctionLiteral" -> FunctionLiteralString(n)
      [] n.node = "CallExpression" -> CallExpressionString(n)

-----------------------------------------------------------------------------
(* package parser.  A Parser p is a record: its lexer l, currentToken,     *)
(* nextToken, errors, and panic, set when a run-time panic is unwinding     *)
(* the call: from then on no step of the call runs.  A parse function      *)
(* gives Parsed(p, node): the Parser afterwards and the node returned.     *)

LOWEST == 1
EQUALS == 2
LESSGREATER == 3
SUM == 4
PRODUCT == 5
PREFIX == 6
CALL == 7

precedences ==
    (EQ :> EQUALS) @@ (NOTEQ :> EQUALS) @@ (LT :> LESSGREATER) @@
    (GT :> LESSGREATER) @@ (PLUS :> SUM) @@ (MINUS :> SUM) @@
    (SLASH :> PRODUCT) @@ (ASTERISK :> PRODUCT)

\* The statement parselets New installs, by token kind.
parselets ==
    (LET_ :> "letStatementParselet") @@
    (RETURN :> "returnStatementParselet") @@
    (LBRACE :> "blockStatementParselet")

\* The prefix parsers New registers, by token kind.
prefixParsers ==
    (IDENT :> "parseIdentifier") @@ (INT :> "parseIntegerLiteral") @@
    (TRUE_ :> "parseBooleanLiteral") @@ (FALSE_ :> "parseBooleanLiteral") @@
    (BANG :> "parsePrefixOperator") @@ (MINUS :> "parsePrefixOperator") @@
    (LPAREN :> "parseGroupedExpression") @@ (IF_ :> "parseIfExpression") @@
    (FUNCTION :> "parseFunctionExpression")

\* The infix parsers New registers, by token kind.
infixParsers ==
    (PLUS :> "parseInfixExpression") @@ (MINUS :> "parseInfixExpression") @@
    (ASTERISK :> "parseInfixExpression") @@ (SLASH :> "parseInfixExpression") @@
    (LT :> "parseInfixExpression") @@ (GT :> "parseInfixExpression") @@
    (EQ :> "parseInfixExpression") @@ (NOTEQ :> "parseInfixExpression")

Parsed(p, n) == [p |-> p, node |-> n]

\* A failed type assertion x.(*T): the panic unwinds the call.
Panic(p) == [p EXCEPT !.panic = TRUE]

\* The three diagnostics, by their format string and arguments.
PrefixError(tok) == [msg |-> "Unable to consume prefix: %v", tok |-> tok]

ConsumeError(tok, t) ==
    [msg |-> "Could not properly consume token: %v expected: %v", tok |-> tok,
     expected |-> t]

IntegerError(literal) == [msg |-> "Could not parse %q as integer", q |-> literal]

addError(p, err) == [p EXCEPT !.errors = Append(p.errors, err)]

consumeNextToken(p) ==
    IF p.currentToken.Type = EOF
    THEN p
    ELSE LET r == NextToken(p.l)
         IN [p EXCEPT !.currentToken = p.nextToken, !.nextToken = r.tok, !.l = r.l]

\* A variant of consumeToken that stops at a token of the wrong kind.
consumeTokenStopping(p, t) ==
    IF p.currentToken.Type # t
    THEN addError(p, ConsumeError(p.currentToken, t))
    ELSE consumeNextToken(p)

consumeToken(p, t) ==
    consumeNextToken(IF p.currentToken.Type # t
                     THEN addError(p, ConsumeError(p.currentToken, t))
                     ELSE p)

getCurrentPrecedence(p) ==
    IF p.currentToken.Type \in DOMAIN precedences
    THEN precedences[p.currentToken.Type]
    ELSE LOWEST

\* parser.New, without the registrations (prefixParsers, infixParsers).
New(lx) ==
    consumeNextToken(consumeNextToken(
        [l |-> lx, currentToken |-> ZeroToken, nextToken |-> ZeroToken,
         errors |-> <<>>, panic |-> FALSE]))

\* Call(fn, <<p, ...>>) is the call fn(p, ...) of the Parser method or parselet
\* named fn: the parse functions, which are mutually recursive and which the
\* Parser holds in tables, are called through it.  A call that panicked
\* unwinds its caller too: whoever sees r.p.panic returns at once.
RECURSIVE Call(_, _)

parseIdentifier(p) ==
    Parsed(Call("consumeNextToken", <<p>>),
           Identifier(p.currentToken, p.currentToken.Literal))

parseIntegerLiteral(p) ==
    LET r == ParseInt(p.currentToken.Literal)
        p1 == Call("consumeNextToken", <<p>>)
    IN IF r.err
       THEN Parsed(addError(p1, IntegerError(p1.currentToken.Literal)), Nil)
       ELSE Parsed(p1, IntegerLiteral(p.currentToken, r.val))

parseBooleanLiteral(p) ==
    Parsed(Call("consumeNextToken", <<p>>),
           Boolean(p.currentToken, p.currentToken.Type = TRUE_))

\* The loop of parseExpression, with left the expression built so far.
parseInfixLoop(p, precedence, left) ==
    IF p.currentToken.Type # SEMICOLON /\ precedence < getCurrentPrecedence(p)
    THEN IF p.currentToken.Type \notin DOMAIN infixParsers
         THEN Parsed(p, left)
         ELSE LET r == Call(infixParsers[p.currentToken.Type], <<p, left>>)
              IN IF r.p.panic THEN Parsed(r.p, Nil)
                 ELSE Call("parseInfixLoop", <<r.p, precedence, r.node>>)
    ELSE Parsed(p, left)

\* A variant of parseExpression that goes on to the infix loop, with no left
\* operand, after a token that has no prefix parser.
parseExpressionFallingThrough(p, precedence) ==
    IF p.currentToken.Type \notin DOMAIN prefixParsers
    THEN Call("parseInfixLoop",
              <<Call("consumeNextToken",
                     <<addError(p, PrefixError(p.currentToken))>>),
                precedence, Nil>>)
    ELSE LET r == Call(prefixParsers[p.currentToken.Type], <<p>>)
         IN IF r.p.panic THEN Parsed(r.p, Nil)
            ELSE Call("parseInfixLoop", <<r.p, precedence, r.node>>)

parseExpression(p, precedence) ==
    IF p.currentToken.Type \notin DOMAIN prefixParsers
    THEN Parsed(Call("consumeNextToken",
                     <<addError(p, PrefixError(p.currentToken))>>),
                Nil)
    ELSE LET r == Call(prefixParsers[p.currentToken.Type], <<p>>)
         IN IF r.p.panic THEN Parsed(r.p, Nil)
            ELSE Call("parseInfixLoop", <<r.p, precedence, r.node>>)

parsePrefixOperator(p) ==
    LET r == Call("parseExpression",
                  <<Call("consumeNextToken", <<p>>), PREFIX>>)
    IN IF r.p.panic THEN Parsed(r.p, Nil)
       ELSE Parsed(r.p, PrefixExpression(p.currentToken, p.currentToken.Literal,
                                         r.node))

parseGroupedExpression(p) ==
    LET r == Call("parseExpression",
                  <<Call("consumeToken", <<p, LPAREN>>), LOWEST>>)
    IN IF r.p.panic THEN Parsed(r.p, Nil)
       ELSE Parsed(Call("consumeToken", <<r.p, RPAREN>>), r.node)

\* A variant of parseInfixExpression whose right operand also takes the
\* operators of the same precedence: they associate to the right.
parseInfixExpressionRightAssoc(p, left) ==
    LET r == Call("parseExpression",
                  <<Call("consumeNextToken", <<p>>),
                    getCurrentPrecedence(p) - 1>>)
    IN IF r.p.panic THEN Parsed(r.p, Nil)
       ELSE Parsed(r.p, InfixExpression(p.currentToken, left,
                                        p.currentToken.Literal, r.node))

parseInfixExpression(p, left) ==
    LET r == Call("parseExpression",
                  <<Call("consumeNextToken", <<p>>), getCurrentPrecedence(p)>>)
    IN IF r.p.panic THEN Parsed(r.p, Nil)
       ELSE Parsed(r.p, InfixExpression(p.currentToken, left,
                                        p.currentToken.Literal, r.node))

\* blockStatementParselet(p).(*ast.BlockStatement): the Parser and the block
\* when the Statement is a block, and a panic when it is nil.
assertBlockStatement(r) ==
    IF r.node = Nil THEN Parsed(Panic(r.p), Nil) ELSE r

\* parseIfExpression, from the else on.
parseElse(p, tok, condition, consequence) ==
    IF p.currentToken.Type # ELSE_
    THEN Parsed(p, IfExpression(tok, condition, consequence, Nil))
    ELSE LET a == assertBlockStatement(
                      Call("blockStatementParselet",
                           <<Call("consumeToken", <<p, ELSE_>>)>>))
         IN IF a.p.panic THEN Parsed(a.p, Nil)
            ELSE Parsed(a.p, IfExpression(tok, condition, consequence, a.node))

\* parseIfExpression, from the consequence on.
parseConsequence(p, tok, condition) ==
    LET b == assertBlockStatement(
                 Call("blockStatementParselet",
                      <<Call("consumeToken", <<p, RPAREN>>)>>))
    IN IF b.p.panic THEN Parsed(b.p, Nil)
       ELSE parseElse(b.p, tok, condition, b.node)

parseIfExpression(p) ==
    LET c == Call("parseExpression",
                  <<Call("consumeToken",
                         <<Call("consumeToken", <<p, IF_>>), LPAREN>>),
                    LOWEST>>)
    IN IF c.p.panic THEN Parsed(c.p, Nil)
       ELSE parseConsequence(c.p, p.currentToken, c.node)

\* The parameter loop of parseFunctionExpression.
parseParameters(p, parameters) ==
    IF p.currentToken.Type # EOF /\ p.currentToken.Type # RPAREN
    THEN LET r == parseIdentifier(p)
         IN Call("parseParameters",
                 <<IF r.p.currentToken.Type = COMMA
                   THEN Call("consumeToken", <<r.p, COMMA>>)
                   ELSE r.p,
                   Append(parameters, r.node)>>)
    ELSE Parsed(p, parameters)

parseFunctionExpression(p) ==
    LET ps == Call("parseParameters",
                   <<Call("consumeToken",
                          <<Call("consumeToken", <<p, FUNCTION>>), LPAREN>>),
                     <<>>>>)
        b == assertBlockStatement(
                 Call("blockStatementParselet",
                      <<Call("consumeToken", <<ps.p, RPAREN>>)>>))
    IN IF b.p.panic THEN Parsed(b.p, Nil)
       ELSE Parsed(b.p, FunctionLiteral(p.currentToken, ps.node, b.node))

\* letStatementParselet, from the name on.
parseLetName(p, tok) ==
    LET r == Call("parseExpression",
                  <<Call("consumeToken",
                         <<Call("consumeToken", <<p, IDENT>>), ASSIGN>>),
                    LOWEST>>)
    IN IF r.p.panic THEN Parsed(r.p, Nil)
       ELSE Parsed(Call("consumeToken", <<r.p, SEMICOLON>>),
                   LetStatement(tok,
                                Identifier(p.currentToken,
                                           p.currentToken.Literal),
                                r.node))

letStatementParselet(p) ==
    IF p.currentToken.Type # LET_ THEN Parsed(p, Nil)
    ELSE parseLetName(Call("consumeToken", <<p, LET_>>), p.currentToken)

returnStatementParselet(p) ==
    IF p.currentToken.Type # RETURN THEN Parsed(p, Nil)
    ELSE LET r == Call("parseExpression",
                       <<Call("consumeToken", <<p, RETURN>>), LOWEST>>)
         IN IF r.p.panic THEN Parsed(r.p, Nil)
            ELSE Parsed(Call("consumeToken", <<r.p, SEMICOLON>>),
                        ReturnStatement(p.currentToken, r.node))

\* Token is read before or after parseExpression ran: Go leaves the order of
\* the two operands of the composite literal open.
expressionStatementParselet(p) ==
    LET r == Call("parseExpression", <<p, LOWEST>>)
    IN IF r.p.panic THEN Parsed(r.p, Nil)
       ELSE Parsed(IF r.p.currentToken.Type = SEMICOLON
                   THEN Call("consumeToken", <<r.p, SEMICOLON>>)
                   ELSE r.p,
                   ExpressionStatement({p.currentToken, r.p.currentToken},
                                       r.node))

\* The statement loop of blockStatementParselet.
parseBlockStatements(p, statements) ==
    IF p.currentToken.Type # EOF /\ p.currentToken.Type # RBRACE
    THEN LET r == Call("parseStatement", <<p>>)
         IN IF r.p.panic THEN Parsed(r.p, <<>>)
            ELSE Call("parseBlockStatements",
                      <<r.p, Append(statements, r.node)>>)
    ELSE Parsed(p, statements)

blockStatementParselet(p) ==
    IF p.currentToken.Type # LBRACE THEN Parsed(p, Nil)
    ELSE LET r == Call("parseBlockStatements",
                       <<Call("consumeToken", <<p, LBRACE>>), <<>>>>)
         IN IF r.p.panic THEN Parsed(r.p, Nil)
            ELSE Parsed(Call("consumeToken", <<r.p, RBRACE>>),
                        BlockStatement(p.currentToken, r.node))

parseStatement(p) ==
    IF p.currentToken.Type \notin DOMAIN parselets
    THEN Call("expressionStatementParselet", <<p>>)
    ELSE Call(parselets[p.currentToken.Type], <<p>>)

\* The loop of ParseProgram.
parseProgramStatements(p, statements) ==
    IF p.currentToken.Type # EOF
    THEN LET r == Call("parseStatement", <<p>>)
         IN IF r.p.panic THEN Parsed(r.p, <<>>)
            ELSE Call("parseProgramStatements",
                      <<r.p, Append(statements, r.node)>>)
    ELSE Parsed(p, statements)

\* Parser.ParseProgram: the Parser afterwards and, unless the call panicked,
\* the Program returned.
ParseProgram(p) ==
    LET r == Call("parseProgramStatements", <<p, <<>>>>)
    IN Parsed(r.p, IF r.p.panic THEN Nil ELSE Program(r.node))

Call(fn, a) ==
    CASE fn = "parseIdentifier" -> parseIdentifier(a[1])
      [] fn = "parseIntegerLiteral" -> parseIntegerLiteral(a[1])
      [] fn = "parseBooleanLiteral" -> parseBooleanLiteral(a[1])
      [] fn = "parseInfixLoop" -> parseInfixLoop(a[1], a[2], a[3])
      [] fn = "parseExpression" -> parseExpression(a[1], a[2])
      [] fn = "parsePrefixOperator" -> parsePrefixOperator(a[1])
      [] fn = "parseGroupedExpression" -> parseGroupedExpression(a[1])
      [] fn = "parseInfixExpression" -> parseInfixExpression(a[1], a[2])
      [] fn = "parseIfExpression" -> parseIfExpression(a[1])
      [] fn = "parseParameters" -> parseParameters(a[1], a[2])
      [] fn = "parseFunctionExpression" -> parseFunctionExpression(a[1])
      [] fn = "letStatementParselet" -> letStatementParselet(a[1])
      [] fn = "returnStatementParselet" -> returnStatementParselet(a[1])
      [] fn = "expressionStatementParselet" -> expressionStatementParselet(a[1])
      [] fn = "parseBlockStatements" -> parseBlockStatements(a[1], a[2])
      [] fn = "blockStatementParselet" -> blockStatementParselet(a[1])
      [] fn = "parseStatement" -> parseStatement(a[1])
      [] fn = "consumeToken" -> consumeToken(a[1], a[2])
      [] fn = "consumeNextToken" -> consumeNextToken(a[1])
      [] fn = "parseProgramStatements" -> parseProgramStatements(a[1], a[2])
      [] fn = "ParseProgram" -> ParseProgram(a[1])

-----------------------------------------------------------------------------
(* The inputs: every concatenation of at most n lexemes of a vocabulary.   *)

MaxChars == 4
MaxExprTokens == 5
MaxStmtTokens == 4
MaxCtlTokens == 4
MaxInnerTokens == 3
MaxFnTokens == 5
MaxExtraCalls == 2
MaxErrors == 2

RECURSIVE Texts(_, _)
Texts(vocab, n) ==
    IF n = 0 THEN {<<>>}
    ELSE {<<>>} \cup {v \o t : v \in vocab, t \in Texts(vocab, n - 1)}

LexVocab ==
    {<<"a">>, <<"1">>, <<" ">>, <<"=">>, <<"!">>, <<";">>, <<"@">>, <<NUL>>}

ExprVocab ==
    {<<"a">>, <<"1">>, <<"-">>, <<"!">>, <<"*">>, <<"<">>, <<"=", "=">>}

StmtVocab ==
    {<<"a", " ">>, <<"8">>, <<"t", "r", "u", "e", " ">>, <<"-">>, <<"(">>,
     <<")">>, <<";">>, <<"l", "e", "t", " ", "a", " ", "=", " ">>,
     <<"r", "e", "t", "u", "r", "n", " ">>}

InnerVocab ==
    {<<"a", " ">>, <<"8">>, <<"0", "8">>, <<"-">>, <<"(">>, <<")">>, <<";">>}

CtlVocab ==
    {<<"i", "f", " ">>, <<"e", "l", "s", "e", " ">>, <<"f", "n", " ">>, <<"(">>,
     <<")">>, <<"{">>, <<"}">>, <<"a", " ">>, <<",">>}

FnVocab ==
    {<<"f", "n", "(">>, <<"a", " ">>, <<"b", " ">>, <<",">>, <<"8">>,
     <<")", "{", "a", "}">>}

\* The arguments the direct calls of consumeToken and parseExpression take.
ConsumeKinds == {IDENT, SEMICOLON}

CallPrecedences == {LOWEST, PREFIX}

NoCall == [op |-> "none"]

NoAgain == [errors |-> <<>>, panicked |-> FALSE, out |-> Text(<<>>)]

InitOver(inputs) ==
    /\ \E input \in inputs : l = NewLexer(input)
    /\ hist = <<>>
    /\ pc = "lexer"
    /\ currentToken = ZeroToken
    /\ nextToken = ZeroToken
    /\ errors = <<>>
    /\ panicked = FALSE
    /\ program = Nil
    /\ out = Text(<<>>)
    /\ again = NoAgain
    /\ last = NoCall

\* The Parser the variables hold.
Self ==
    [l |-> l, currentToken |-> currentToken, nextToken |-> nextToken,
     errors |-> errors, panic |-> FALSE]

Becomes(p) ==
    /\ l' = p.l
    /\ currentToken' = p.currentToken
    /\ nextToken' = p.nextToken
    /\ errors' = p.errors
    /\ panicked' = p.panic

\* A parse function returned r: the Parser is r.p, the program r.node.
Returns(r) ==
    /\ Becomes(r.p)
    /\ program' = r.node

\* The method op, called directly with arg, returned r.
Returned(op, arg, r) ==
    /\ Becomes(r.p)
    /\ last' = [op |-> op, arg |-> arg, before |-> Self, node |-> r.node]

\* What the second round gives: its diagnostics and the text of its Program.
Second(r) ==
    [errors |-> r.p.errors,
     panicked |-> r.p.panic \/ ~String(r.node).ok,
     out |-> IF r.p.panic THEN StringPanic ELSE String(r.node)]

\* A client of the Lexer calls l.NextToken().
CallNextToken ==
    /\ pc = "lexer"
    /\ Len(hist) < Len(l.input) + MaxExtraCalls
    /\ LET r == NextToken(l)
       IN /\ l' = r.l
          /\ hist' = Append(hist, [tok |-> r.tok, before |-> l, after |-> r.l])
    /\ UNCHANGED <<pc, currentToken, nextToken, errors, panicked, program, out,
                   again, last>>

\* p := parser.New(l)
CallNew ==
    /\ pc = "lexer"
    /\ hist = <<>>
    /\ Becomes(New(l))
    /\ pc' = "parser"
    /\ UNCHANGED <<hist, program, out, again, last>>

\* p.consumeToken(t)
CallConsumeToken(t) ==
    /\ pc = "parser"
    /\ ~panicked
    /\ Len(errors) < MaxErrors
    /\ Returned("consumeToken", t, Parsed(consumeToken(Self, t), Nil))
    /\ UNCHANGED <<hist, pc, program, out, again>>

\* p.parseExpression(precedence)
CallParseExpression(precedence) ==
    /\ pc = "parser"
    /\ ~panicked
    /\ Len(errors) < MaxErrors
    /\ Returned("parseExpression", precedence,
                Call("parseExpression", <<Self, precedence>>))
    /\ UNCHANGED <<hist, pc, program, out, again>>

\* p.parseIntegerLiteral(), which is registered for INT and called on one.
CallParseIntegerLiteral ==
    /\ pc = "parser"
    /\ ~panicked
    /\ Len(errors) < MaxErrors
    /\ currentToken.Type = INT
    /\ Returned("parseIntegerLiteral", INT, parseIntegerLiteral(Self))
    /\ UNCHANGED <<hist, pc, program, out, again>>

\* program := p.ParseProgram()
CallParseProgram ==
    /\ pc = "parser"
    /\ ~panicked
    /\ Returns(Call("ParseProgram", <<Self>>))
    /\ pc' = "parsed"
    /\ UNCHANGED <<hist, out, again, last>>

\* ParseProgram, one step at a time.  It starts with an empty Program.
EnterParseProgram ==
    /\ pc = "parser"
    /\ ~panicked
    /\ program' = Program(<<>>)
    /\ pc' = "parsing"
    /\ UNCHANGED <<l, hist, currentToken, nextToken, errors, panicked, out,
                   again, last>>

\* The statement parsed by one iteration of its loop joins the Program, r
\* being what parseStatement returned; a panic ends the call with no Program.
Iterated(r) ==
    /\ Becomes(r.p)
    /\ program' = IF r.p.panic THEN Nil
                  ELSE Program(Append(program.Statements, r.node))
    /\ pc' = IF r.p.panic THEN "parsed" ELSE "parsing"

\* One iteration of its loop: the current token is not EOF.
ParseOneStatement ==
    /\ pc = "parsing"
    /\ currentToken.Type # EOF
    /\ Iterated(Call("parseStatement", <<Self>>))
    /\ UNCHANGED <<hist, out, again, last>>

\* The loop ends at EOF and ParseProgram returns the Program.
LeaveParseProgram ==
    /\ pc = "parsing"
    /\ currentToken.Type = EOF
    /\ pc' = "parsed"
    /\ UNCHANGED <<l, hist, currentToken, nextToken, errors, panicked, program,
                   out, again, last>>

\* program.String()
CallString ==
    /\ pc = "parsed"
    /\ ~panicked
    /\ out' = String(program)
    /\ panicked' = ~out'.ok
    /\ pc' = "rendered"
    /\ UNCHANGED <<l, hist, currentToken, nextToken, errors, program, again,
                   last>>

\* q := parser.New(lexer.New(text)); q.ParseProgram().String(), for the text
\* the first String() gave.
CallAgain ==
    /\ pc = "rendered"
    /\ ~panicked
    /\ again' = Second(Call("ParseProgram", <<New(NewLexer(out.text))>>))
    /\ pc' = "reparsed"
    /\ UNCHANGED <<l, hist, currentToken, nextToken, errors, panicked, program,
                   out, last>>

\* A client parses a text and prints the Program.
Next == CallNew \/ CallParseProgram \/ CallString \/ CallAgain

\* A client parses a text.
ParseNext == CallNew \/ CallParseProgram

\* A client parses a text; ParseProgram runs one loop iteration at a time.
LoopNext ==
    \/ CallNew
    \/ EnterParseProgram
    \/ ParseOneStatement
    \/ LeaveParseProgram

\* A client reads the tokens of a text.
LexNext == CallNextToken

\* The Parser's methods, called one at a time on a fresh Parser.
InnerNext ==
    \/ CallNew
    \/ \E t \in ConsumeKinds : CallConsumeToken(t)
    \/ \E precedence \in CallPrecedences : CallParseExpression(precedence)
    \/ CallParseIntegerLiteral

LexSpec == InitOver(Texts(LexVocab, MaxChars)) /\ [][LexNext]_vars

ExprSpec == InitOver(Texts(ExprVocab, MaxExprTokens)) /\ [][ParseNext]_vars

CtlSpec == InitOver(Texts(CtlVocab, MaxCtlTokens)) /\ [][Next]_vars

Spec == InitOver(Texts(StmtVocab, MaxStmtTokens)) /\ [][Next]_vars

FnSpec == InitOver(Texts(FnVocab, MaxFnTokens)) /\ [][ParseNext]_vars

LoopSpec == InitOver(Texts(CtlVocab, MaxCtlTokens)) /\ [][LoopNext]_vars

InnerSpec == InitOver(Texts(InnerVocab, MaxInnerTokens)) /\ [][InnerNext]_vars

-----------------------------------------------------------------------------
(* What the claims are stated with. *)

\* The tokens NextToken gives from lx on, up to the first EOF.
RECURSIVE AllTokens(_)
AllTokens(lx) ==
    IF NextToken(lx).tok.Type = EOF THEN <<>>
    ELSE <<NextToken(lx).tok>> \o AllTokens(NextToken(lx).l)

\* The tokens of the input text, and their kinds.
InputTokens == AllTokens(NewLexer(l.input))

InputKinds == [i \in 1..Len(InputTokens) |-> InputTokens[i].Type]

\* The 0-based position of the first byte of input at or after pos that is
\* not whitespace; Len(input) if there is none.
RECURSIVE SkipWhitespace(_, _)
SkipWhitespace(input, pos) ==
    IF pos < Len(input) /\ input[pos + 1] \in {" ", "\t", "\r", "\n"}
    THEN SkipWhitespace(input, pos + 1)
    ELSE pos

Punctuation ==
    {"=", "+", "-", "!", "*", "/", "<", ">", ",", ";", "(", ")", "{", "}"}

\* A byte that starts no token of the language.
IsOther(ch) ==
    /\ ch # NUL
    /\ ch \notin {" ", "\t", "\r", "\n"}
    /\ ch \notin Punctuation
    /\ ~isDigit(ch)
    /\ ~isCharacter(ch)

\* The reference grammar, by levels: 1 equality, 2 relational, 3 additive,
\* 4 multiplicative, each a left-associative chain of the next level, and
\* 5 a chain of prefix operators on an identifier or an integer.
RefLevel(typ) ==
    CASE typ \in {EQ, NOTEQ} -> 1
      [] typ \in {LT, GT} -> 2
      [] typ \in {PLUS, MINUS} -> 3
      [] typ \in {ASTERISK, SLASH} -> 4
      [] OTHER -> 0

RefFail == [ok |-> FALSE, node |-> Nil, i |-> 0]

RefNode(n, i) == [ok |-> TRUE, node |-> n, i |-> i]

RECURSIVE RefParse(_, _, _)
RECURSIVE RefChain(_, _, _)

\* The expression of level lv that starts at token i of ts.
RefParse(lv, ts, i) ==
    IF lv < 5
    THEN LET first == RefParse(lv + 1, ts, i)
         IN IF first.ok THEN RefChain(lv, ts, first) ELSE RefFail
    ELSE IF i > Len(ts) THEN RefFail
    ELSE IF ts[i].Type \in {MINUS, BANG}
    THEN LET right == RefParse(5, ts, i + 1)
         IN IF right.ok
            THEN RefNode(PrefixExpression(ts[i], ts[i].Literal, right.node),
                         right.i)
            ELSE RefFail
    ELSE IF ts[i].Type = IDENT
    THEN RefNode(Identifier(ts[i], ts[i].Literal), i + 1)
    ELSE IF ts[i].Type = INT /\ ~ParseInt(ts[i].Literal).err
    THEN RefNode(IntegerLiteral(ts[i], ParseInt(ts[i].Literal).val), i + 1)
    ELSE RefFail

\* The chain of level lv whose operands so far make left.
RefChain(lv, ts, left) ==
    IF left.i <= Len(ts) /\ RefLevel(ts[left.i].Type) = lv
    THEN LET op == ts[left.i]
             right == RefParse(lv + 1, ts, left.i + 1)
         IN IF right.ok
            THEN RefChain(lv, ts,
                          RefNode(InfixExpression(op, left.node, op.Literal,
                                                  right.node),
                                  right.i))
            ELSE RefFail
    ELSE left

\* The tree of ts, when the whole of ts is one expression of the grammar.
RefExpression(ts) ==
    LET r == RefParse(1, ts, 1)
    IN IF r.ok /\ r.i = Len(ts) + 1 THEN r ELSE RefFail

\* Only identifiers, integers, booleans, prefix and infix operators, in let,
\* return and expression statements.
RECURSIVE SimpleNode(_)
SimpleNode(n) ==
    CASE n.node \in {"Identifier", "IntegerLiteral", "Boolean"} -> TRUE
      [] n.node = "PrefixExpression" -> SimpleNode(n.Right)
      [] n.node = "InfixExpression" -> SimpleNode(n.Left) /\ SimpleNode(n.Right)
      [] n.node = "LetStatement" -> SimpleNode(n.Value)
      [] n.node = "ReturnStatement" -> SimpleNode(n.ReturnValue)
      [] n.node = "ExpressionStatement" -> SimpleNode(n.Expression)
      [] n.node = "Program" ->
             \A i \in 1..Len(n.Statements) : SimpleNode(n.Statements[i])
      [] OTHER -> FALSE

\* No expression statement has a statement after it.
Separated(prog) ==
    \A i \in 1..(Len(prog.Statements) - 1) :
        prog.Statements[i].node # "ExpressionStatement"

\* The second round accepted the text and printed the same text.
RoundTrips == again.errors = <<>> /\ ~again.panicked /\ again.out = out

\* The text is one function literal whose body is the block { IDENT }: fn, (,
\* tokens other than ), then ), {, an identifier, }.
FunctionText ==
    LET n == Len(InputKinds)
    IN /\ n >= 6
       /\ InputKinds[1] = FUNCTION
       /\ InputKinds[2] = LPAREN
       /\ SubSeq(InputKinds, n - 3, n) = <<RPAREN, LBRACE, IDENT, RBRACE>>
       /\ \A i \in 3..(n - 4) : InputKinds[i] # RPAREN

\* The tokens between its ( and its ).
BetweenParens == SubSeq(InputTokens, 3, Len(InputTokens) - 4)

\* The Identifier nodes of the identifier tokens among toks, in their order.
RECURSIVE IdentifiersOf(_)
IdentifiersOf(toks) ==
    IF toks = <<>> THEN <<>>
    ELSE (IF toks[1].Type = IDENT
          THEN <<Identifier(toks[1], toks[1].Literal)>>
          ELSE <<>>) \o IdentifiersOf(Tail(toks))

\* The decimal value of a run of digits, leading zeros allowed.
DecimalValue(s) == DigitsValue(s, 10, <<0>>)

\* The tokens the Parser has not consumed yet: those it holds and those the
\* Lexer has still to give.
Pending(cur, nxt, lx) ==
    (IF cur.Type \in {EOF, ZeroToken.Type} THEN 0 ELSE 1)
    + (IF nxt.Type \in {EOF, ZeroToken.Type} THEN 0 ELSE 1)
    + Len(AllTokens(lx))

-----------------------------------------------------------------------------
(* The claims. *)

\* C1: ParseProgram never panics: on every input it returns a Program.
C1_ParseProgramReturns ==
    pc = "parsed" => ~panicked /\ program.node = "Program"

\* C2: once NextToken has returned EOF, every later call returns the token of
\* kind EOF with the empty literal and leaves the cursor where it was.
C2_EofForever ==
    \A i \in 1..Len(hist) : \A j \in 1..Len(hist) :
        (i < j /\ hist[i].tok.Type = EOF) =>
            /\ hist[j].tok = Token(EOF, <<>>)
            /\ hist[j].after = hist[j].before

C2_Witness ==
    /\ Len(hist) >= 3
    /\ hist[1].tok.Type = IDENT
    /\ hist[2].tok.Type = EOF
    /\ hist[3].tok.Type = EOF

\* C3: an expression of the reference grammar that the parser accepts with no
\* diagnostic is parsed into one expression statement holding the tree the
\* reference grammar gives it.
C3_PrecedenceClimbing ==
    (pc = "parsed" /\ errors = <<>> /\ RefExpression(InputTokens).ok) =>
        /\ program.node = "Program"
        /\ Len(program.Statements) = 1
        /\ program.Statements[1].node = "ExpressionStatement"
        /\ program.Statements[1].Expression = RefExpression(InputTokens).node

C3_Witness ==
    /\ pc = "parsed"
    /\ errors = <<>>
    /\ l.input = <<"a", "-", "1", "-", "a">>
    /\ RefExpression(InputTokens).ok
    /\ String(program) =
           Text(<<"(", "(", "a", " ", "-", " ", "1", ")", " ", "-", " ", "a",
                  ")">>)

\* C4, as stated: a program of let, return and expression statements over
\* identifiers, integers, booleans, prefix, infix and parenthesised
\* expressions that is accepted with no diagnostic prints a text that is
\* accepted with no diagnostic and prints the same text.
C4_RoundTrip ==
    (pc = "reparsed" /\ errors = <<>> /\ SimpleNode(program)) => RoundTrips

\* C4, amended: the same, for the programs in which no expression statement
\* has a statement after it.
C4_RoundTripSeparated ==
    (pc = "reparsed" /\ errors = <<>> /\ SimpleNode(program)
     /\ Separated(program)) => RoundTrips

C4_Witness ==
    /\ pc = "reparsed"
    /\ errors = <<>>
    /\ SimpleNode(program)
    /\ Len(program.Statements) = 2
    /\ program.Statements[1].node = "ReturnStatement"
    /\ program.Statements[2].node = "ExpressionStatement"
    /\ RoundTrips

\* C5: an identifier followed by a parenthesised argument is parsed, with no
\* diagnostic, into one statement whose expression is a CallExpression.
C5_CallExpression ==
    (pc = "parsed" /\ InputKinds = <<IDENT, LPAREN, IDENT, RPAREN>>) =>
        /\ errors = <<>>
        /\ program.node = "Program"
        /\ Len(program.Statements) = 1
        /\ program.Statements[1].node = "ExpressionStatement"
        /\ program.Statements[1].Expression.node = "CallExpression"

\* C6: consumeToken(t) always makes the former lookahead the current token,
\* and records exactly one diagnostic, naming the token found and t, exactly
\* when the current token was not of kind t.
C6_ConsumeToken ==
    last.op = "consumeToken" =>
        /\ currentToken = last.before.nextToken
        /\ l.position >= last.before.l.position
        /\ errors =
               IF last.before.currentToken.Type # last.arg
               THEN Append(last.before.errors,
                           ConsumeError(last.before.currentToken, last.arg))
               ELSE last.before.errors

C6_Witness ==
    /\ last.op = "consumeToken"
    /\ last.arg = SEMICOLON
    /\ last.before.currentToken.Type = INT
    /\ last.before.nextToken.Type = IDENT
    /\ currentToken.Type = IDENT
    /\ Len(errors) = Len(last.before.errors) + 1

\* C7: parseExpression on a token that has no prefix parser records exactly
\* one diagnostic, naming that token, returns nil, and moves on by exactly
\* one token (by none at EOF): no infix parser runs.
C7_NoPrefixParser ==
    (last.op = "parseExpression"
     /\ last.before.currentToken.Type \notin DOMAIN prefixParsers) =>
        /\ errors = Append(last.before.errors,
                           PrefixError(last.before.currentToken))
        /\ last.node = Nil
        /\ ~panicked
        /\ IF last.before.currentToken.Type = EOF
           THEN /\ currentToken = last.before.currentToken
                /\ nextToken = last.before.nextToken
                /\ l = last.before.l
           ELSE /\ currentToken = last.before.nextToken
                /\ nextToken = NextToken(last.before.l).tok
                /\ l = NextToken(last.before.l).l

C7_Witness ==
    /\ last.op = "parseExpression"
    /\ last.arg = LOWEST
    /\ last.before.currentToken.Type = RPAREN
    /\ last.before.nextToken.Type = MINUS
    /\ currentToken.Type = MINUS
    /\ last.node = Nil

\* C8: String() of the Program that ParseProgram returned never panics.
C8_StringReturns ==
    pc = "rendered" => out.ok

\* C9: parseIntegerLiteral on an INT token whose literal does not convert
\* returns nil, moves on by one token, and records one diagnostic that names
\* that literal.
C9_IntegerDiagnostic ==
    (last.op = "parseIntegerLiteral"
     /\ ParseInt(last.before.currentToken.Literal).err) =>
        /\ last.node = Nil
        /\ currentToken = last.before.nextToken
        /\ errors = Append(last.before.errors,
                           IntegerError(last.before.currentToken.Literal))

\* C10: after the whitespace, a byte that starts no token gives the token
\* ILLEGAL with that byte as its literal and moves the cursor one byte on;
\* every token but EOF moves the cursor forward; and a text of n bytes gives
\* EOF at the latest on call n + 1.
C10_IllegalAdvances ==
    \A i \in 1..Len(hist) :
        LET h == hist[i]
            w == SkipWhitespace(l.input, h.before.position)
        IN /\ (w < Len(l.input) /\ IsOther(l.input[w + 1])) =>
                  /\ h.tok = Token(ILLEGAL, <<l.input[w + 1]>>)
                  /\ h.after.position = w + 1
           /\ h.tok.Type # EOF => h.after.position > h.before.position
           /\ i > Len(l.input) => h.tok.Type = EOF

C10_Witness ==
    /\ Len(hist) = 3
    /\ l.input = <<" ", "@", "a">>
    /\ hist[1].tok = Token(ILLEGAL, <<"@">>)
    /\ hist[2].tok.Type = IDENT
    /\ hist[3].tok.Type = EOF

\* C11: at "=" or "!" (after the whitespace), NextToken gives EQ "==" or
\* NOTEQ "!=" and moves two bytes on exactly when the very next byte is "=";
\* otherwise it gives ASSIGN or BANG and moves one byte on.
C11_TwoCharOperators ==
    \A i \in 1..Len(hist) :
        LET h == hist[i]
            w == SkipWhitespace(l.input, h.before.position)
            first == IF w < Len(l.input) THEN l.input[w + 1] ELSE NUL
            second == IF w + 1 < Len(l.input) THEN l.input[w + 2] ELSE NUL
        IN first \in {"=", "!"} =>
               IF second = "="
               THEN /\ h.tok = Token(IF first = "=" THEN EQ ELSE NOTEQ,
                                     <<first, "=">>)
                    /\ h.after.position = w + 2
               ELSE /\ h.tok = Token(IF first = "=" THEN ASSIGN ELSE BANG,
                                     <<first>>)
                    /\ h.after.position = w + 1

C11_Witness ==
    /\ l.input = <<"=", "=", "=">>
    /\ Len(hist) = 3
    /\ hist[1].tok = Token(EQ, <<"=", "=">>)
    /\ hist[2].tok = Token(ASSIGN, <<"=">>)
    /\ hist[3].tok.Type = EOF

\* C12: every iteration of ParseProgram's loop, entered on a token that is
\* not EOF, returns to the loop having consumed at least one token and
\* appended exactly one statement (so the loop ends, at EOF).
C12_EachIterationAdvances ==
    [][(pc = "parsing" /\ currentToken.Type # EOF) =>
           /\ ~panicked'
           /\ pc' = "parsing"
           /\ Len(program'.Statements) = Len(program.Statements) + 1
           /\ Pending(currentToken', nextToken', l')
                  < Pending(currentToken, nextToken, l)]_vars

\* C13: of a function literal, Parameters is the identifier tokens between
\* ( and ), in their order, each from an IDENT token; the body is the block
\* after ), here of one ExpressionStatement; and commas between the
\* identifiers bring no diagnostic.
C13_FunctionParameters ==
    (pc = "parsed" /\ FunctionText) =>
        /\ ~panicked
        /\ Len(program.Statements) = 1
        /\ program.Statements[1].node = "ExpressionStatement"
        /\ LET fn == program.Statements[1].Expression
           IN /\ fn.node = "FunctionLiteral"
              /\ fn.Parameters = IdentifiersOf(BetweenParens)
              /\ \A i \in 1..Len(fn.Parameters) :
                     fn.Parameters[i].Token.Type = IDENT
              /\ fn.Body.node = "BlockStatement"
              /\ Len(fn.Body.Statements) = 1
              /\ fn.Body.Statements[1].node = "ExpressionStatement"
        /\ (\A i \in 1..Len(BetweenParens) :
                BetweenParens[i].Type \in {IDENT, COMMA}) => errors = <<>>

\* C14: parseIntegerLiteral on an INT token whose decimal value fits in 64
\* signed bits records no diagnostic and returns an IntegerLiteral of that
\* token whose Value is the decimal value and whose text is the digit run.
C14_DecimalIntegerLiteral ==
    (last.op = "parseIntegerLiteral"
     /\ NumLess(DecimalValue(last.before.currentToken.Literal), Int64Cutoff)) =>
        /\ errors = last.before.errors
        /\ last.node =
               IntegerLiteral(last.before.currentToken,
                              DecimalValue(last.before.currentToken.Literal))
        /\ IntegerLiteralString(last.node)
               = Text(last.before.currentToken.Literal)

====
